---- MODULE Spec2Model ----
(***************************************************************************)
(* A model of goissue (src/goissue.go), a command-line client for the      *)
(* Google Code issue tracker's Atom feed.  The module models the second    *)
(* (Go 1) copy of the program in the file, lines 475-963; the first copy   *)
(* (lines 1-473) differs only in package names and in how response bodies  *)
(* are handed to xml.Unmarshal.                                            *)
(*                                                                         *)
(* Go strings are modelled as sequences of one-character strings, so that  *)
(* strings.Split, strings.Join, slicing and byte-wise loops are computed   *)
(* as the code computes them.                                              *)
(*                                                                         *)
(* Three specifications share the module:                                  *)
(*   Spec        one run of main(): flags, config, login, dispatch, the    *)
(*               feed requests and the create-issue workflow;              *)
(*   SpecDump    dump / dumpLevel applied to bounded HTML trees;           *)
(*   SpecEscape  xmlEscape applied to bounded strings.                     *)
(***************************************************************************)
EXTENDS Integers, Sequences, FiniteSets, TLC

VARIABLES
    \* ---- one run of main() ----
    pc,         \* position of the single thread of control
    goos,       \* runtime.GOOS
    create,     \* flag -C
    search,     \* flag -s
    comment,    \* flag -c
    args,       \* flag.Args(): the positional arguments
    argi,       \* loop index i of main's for loop (0-based)
    res,        \* authLogin's locals: the login response (res, err, b)
    auth,       \* the token authLogin returned
    net,        \* every HTTP request issued so far, with the server's answer
    stdout,     \* what was printed on standard output
    stderr,     \* the message the run ended with (log.Fatal, panic, usage)
    exitCode,   \* the process exit status, -1 while running
    file,       \* the temporary draft file on disk: Absent or its contents
    draft,      \* createIssue's locals from, title, body
    calls,      \* createIssue's calls of WriteFile, run, ReadFile, Remove
    \* ---- dump applied to a tree ----
    dpc,        \* "call" before dump is applied, "done" after
    docRoot,    \* dump's argument n: Nil or the root node of a tree
    dumpText,   \* dump's first result
    dumpErr,    \* dump's second result: NoErr or the error's message
    \* ---- xmlEscape applied to a string ----
    epc,        \* "call", "once" (escaped), "twice" (the output escaped again)
    escS,       \* xmlEscape's argument s
    escOut,     \* xmlEscape(s)
    escAgain    \* xmlEscape(xmlEscape(s))

mainVars == <<pc, goos, create, search, comment, args, argi, res, auth, net,
              stdout, stderr, exitCode, file, draft, calls>>
dumpVars == <<dpc, docRoot, dumpText, dumpErr>>
escVars == <<epc, escS, escOut, escAgain>>
vars == <<mainVars, dumpVars, escVars>>

-----------------------------------------------------------------------------
(* Bounds of the model.                                                    *)

MaxEscLen == 3

\* The number of nodes below the root of the trees dump is applied to.
MaxNodes == 3

\* The number of positional arguments on the command line.
MaxArgs == 2

\* The number of lines of a generated login response body.
MaxLoginLines == 3

\* The number of body lines of an edited draft.
MaxBodyLines == 2

-----------------------------------------------------------------------------
(* Strings.                                                                *)

NL == "\n"
CR == "\r"

\* All sequences over S of length at most n.
SeqsUpTo(S, n) == UNION {[1..k -> S] : k \in 0..n}

\* s[from:] and s[:to] of Go, on 0-based byte offsets.
SliceFrom(str, from) == SubSeq(str, from + 1, Len(str))
SliceTo(str, to) == SubSeq(str, 1, to)

-----------------------------------------------------------------------------
(* xmlEscape.                                                              *)

xmlSpecial ==
    ("<" :> <<"&","l","t",";">>) @@
    (">" :> <<"&","g","t",";">>) @@
    ("\"" :> <<"&","q","u","o","t",";">>) @@
    ("'" :> <<"&","a","p","o","s",";">>) @@
    ("&" :> <<"&","a","m","p",";">>)

\* EscapeByte with the apostrophe left out of xmlSpecial.
EscapeByteNoApos(c) ==
    IF c \in DOMAIN xmlSpecial \ {"'"} THEN xmlSpecial[c] ELSE <<c>>

\* One iteration of xmlEscape's loop: what is written to b for byte c.
EscapeByte(c) == IF c \in DOMAIN xmlSpecial THEN xmlSpecial[c] ELSE <<c>>

RECURSIVE xmlEscapeLoop(_, _, _)
xmlEscapeLoop(str, i, b) ==
    IF i < Len(str)
    THEN xmlEscapeLoop(str, i + 1, b \o EscapeByte(str[i + 1]))
    ELSE b

xmlEscape(str) == xmlEscapeLoop(str, 0, <<>>)

\* The bytes the inputs are drawn from: the five special bytes, two ordinary
\* letters and the ';' that ends an entity.
EscAlphabet == {"<", ">", "\"", "'", "&", "a", "b", ";"}

\* The example of the specification: <a&b>'"
EscExample == <<"<", "a", "&", "b", ">", "'", "\"">>

EscInputs == SeqsUpTo(EscAlphabet, MaxEscLen) \cup {EscExample}

EscIdle == epc = "idle" /\ escS = <<>> /\ escOut = <<>> /\ escAgain = <<>>

EscInit == epc = "call" /\ escS \in EscInputs /\ escOut = <<>> /\ escAgain = <<>>

\* xmlEscape(title), xmlEscape(body), ...: one application to s.
EscapeOnce ==
    /\ epc = "call"
    /\ escOut' = xmlEscape(escS)
    /\ epc' = "once"
    /\ UNCHANGED <<escS, escAgain, mainVars, dumpVars>>

\* xmlEscape applied to its own output.
EscapeTwice ==
    /\ epc = "once"
    /\ escAgain' = xmlEscape(escOut)
    /\ epc' = "twice"
    /\ UNCHANGED <<escS, escOut, mainVars, dumpVars>>

EscNext == EscapeOnce \/ EscapeTwice

-----------------------------------------------------------------------------
(* dump and dumpLevel: the flattening of a parsed HTML tree.               *)

\* An html.Node: its Type, its Data and its children, in order.
Node(type, data, child) == [Type |-> type, Data |-> data, Child |-> child]

\* A nil *html.Node.
Nil == Node("nil", <<>>, <<>>)

\* A nil error.
NoErr == "nil"

\* The contents of the text nodes: an ordinary byte, and the three ways a
\* '%' can stand in a format string that is given no operands.
TextData == {<<"a">>, <<"b", "%">>, <<"%", "%", "c">>, <<"%", "d">>}

\* The nodes that have no children. A node of any type but ElementNode is a
\* leaf, as in the trees html.Parse builds.
LeafNodes ==
    {Node("TextNode", d, <<>>) : d \in TextData} \cup
    {Node(ty, <<>>, <<>>) :
        ty \in {"ElementNode", "CommentNode", "DocumentNode", "ErrorNode",
                "DoctypeNode"}}

\* Trees of exactly n nodes, and sequences of trees of n nodes in all.
RECURSIVE TreesOf(_), ForestsOf(_)
TreesOf(n) ==
    IF n = 1 THEN LeafNodes
    ELSE {Node("ElementNode", <<>>, f) : f \in ForestsOf(n - 1)}
ForestsOf(n) ==
    IF n = 0 THEN {<<>>}
    ELSE UNION {{<<t>> \o f : t \in TreesOf(k), f \in ForestsOf(n - k)} :
                    k \in 1..n}

\* What dump is applied to: nil, or a document node over a bounded forest.
DumpInputs ==
    {Nil} \cup
    UNION {{Node("DocumentNode", <<>>, f) : f \in ForestsOf(n)} : n \in 0..MaxNodes}

\* fmt.Fprintf(w, format) with no operands, as package fmt documents it, for
\* formats that hold no flag, width or precision byte: "%%" writes '%', '%'
\* before a verb v writes "%!v(MISSING)", a final '%' writes "%!(NOVERB)",
\* any other byte is copied.
RECURSIVE FprintfLoop(_, _, _)
FprintfLoop(format, i, b) ==
    IF i > Len(format) THEN b
    ELSE IF format[i] # "%" THEN FprintfLoop(format, i + 1, Append(b, format[i]))
    ELSE IF i = Len(format)
        THEN b \o <<"%", "!", "(", "N", "O", "V", "E", "R", "B", ")">>
    ELSE IF format[i + 1] = "%" THEN FprintfLoop(format, i + 2, Append(b, "%"))
    ELSE FprintfLoop(format, i + 2,
            b \o <<"%", "!", format[i + 1], "(", "M", "I", "S", "S", "I", "N", "G", ")">>)

Fprintf(format) == FprintfLoop(format, 1, <<>>)

\* dumpLevel's first loop: level times two spaces.
Indent(level) == [i \in 1..(2 * level) |-> " "]

\* NodeErr with comment nodes passed over like element nodes.
NodeErrCommentAllowed(n) ==
    CASE n.Type = "ErrorNode" -> "unexpected ErrorNode"
      [] n.Type = "DocumentNode" -> "unexpected DocumentNode"
      [] n.Type \in {"ElementNode", "TextNode", "CommentNode"} -> NoErr
      [] OTHER -> "unknown node type"

\* dumpLevel's switch on n.Type: the error it returns, NoErr to go on.
NodeErr(n) ==
    CASE n.Type = "ErrorNode" -> "unexpected ErrorNode"
      [] n.Type = "DocumentNode" -> "unexpected DocumentNode"
      [] n.Type = "ElementNode" -> NoErr
      [] n.Type = "TextNode" -> NoErr
      [] n.Type = "CommentNode" -> "COMMENT"
      [] OTHER -> "unknown node type"

\* What dumpLevel's switch writes to w for n.
NodeText(n) == IF n.Type = "TextNode" THEN Fprintf(n.Data) ELSE <<>>

\* The level dumpLevel passes to its recursive calls.
ChildLevel(level) == level + 1

\* dumpLevel(w, n, level): the writer's contents afterwards and the error.
\* dumpRange is a loop over the children c = cs[i], ... that stops at the
\* first error.
RECURSIVE dumpLevel(_, _, _), dumpRange(_, _, _, _)
dumpLevel(w, n, level) ==
    LET w1 == w \o Indent(level) IN
    IF NodeErr(n) # NoErr THEN [w |-> w1, err |-> NodeErr(n)]
    ELSE dumpRange(w1 \o NodeText(n), n.Child, 1, ChildLevel(level))
dumpRange(w, cs, i, level) ==
    IF i > Len(cs) THEN [w |-> w, err |-> NoErr]
    ELSE LET r == dumpLevel(w, cs[i], level) IN
         IF r.err # NoErr THEN r ELSE dumpRange(r.w, cs, i + 1, level)

\* dump(n): the pair (string, error).
dump(n) ==
    IF n = Nil \/ Len(n.Child) = 0 THEN [text |-> <<>>, err |-> NoErr]
    ELSE LET r == dumpRange(<<>>, n.Child, 1, 0) IN
         IF r.err # NoErr THEN [text |-> <<>>, err |-> r.err]
         ELSE [text |-> r.w, err |-> NoErr]

DumpIdle == dpc = "idle" /\ docRoot = Nil /\ dumpText = <<>> /\ dumpErr = NoErr

DumpInit == dpc = "call" /\ docRoot \in DumpInputs /\ dumpText = <<>> /\ dumpErr = NoErr

\* text, err := dump(doc)
Dump ==
    /\ dpc = "call"
    /\ dumpText' = dump(docRoot).text
    /\ dumpErr' = dump(docRoot).err
    /\ dpc' = "done"
    /\ UNCHANGED <<docRoot, mainVars, escVars>>

DumpNext == Dump

-----------------------------------------------------------------------------
(* strings.Split, strings.Join and strings.Replace.                        *)

\* strings.Index(str[i:], sep) as a 1-based position in str: the first
\* position at or after i where sep occurs, 0 when there is none.
Index(str, sep, i) ==
    LET at == {j \in i..(Len(str) - Len(sep) + 1) :
                  SubSeq(str, j, j + Len(sep) - 1) = sep} IN
    IF at = {} THEN 0 ELSE CHOOSE j \in at : \A k \in i..(j - 1) : k \notin at

\* strings.Split(str, sep) for a non-empty sep: the pieces between the
\* occurrences of sep, always at least one. Each step cuts at the next
\* occurrence, as genSplit does.
RECURSIVE SplitLoop(_, _, _, _)
SplitLoop(str, sep, i, pieces) ==
    LET m == Index(str, sep, i) IN
    IF m = 0 THEN Append(pieces, SubSeq(str, i, Len(str)))
    ELSE SplitLoop(str, sep, m + Len(sep), Append(pieces, SubSeq(str, i, m - 1)))

Split(str, sep) == SplitLoop(str, sep, 1, <<>>)

\* strings.Join(a, sep).
RECURSIVE Join(_, _)
Join(a, sep) ==
    IF Len(a) = 0 THEN <<>>
    ELSE IF Len(a) = 1 THEN a[1]
    ELSE a[1] \o sep \o Join(Tail(a), sep)

\* strings.Replace(str, old, new, -1) for a non-empty old: each step copies
\* up to the next occurrence of old and writes new in its place.
RECURSIVE ReplaceLoop(_, _, _, _, _)
ReplaceLoop(str, old, new, i, b) ==
    LET m == Index(str, old, i) IN
    IF m = 0 THEN b \o SubSeq(str, i, Len(str))
    ELSE ReplaceLoop(str, old, new, m + Len(old), b \o SubSeq(str, i, m - 1) \o new)

Replace(str, old, new) == ReplaceLoop(str, old, new, 1, <<>>)

-----------------------------------------------------------------------------
(* The inputs of a run: command line, platform, servers, editor.           *)

Ids == {<<"1">>, <<"2">>}

\* -s: the empty default, or a word.
SearchWords == {<<>>, <<"c", "r", "a", "s", "h">>}

\* The bodies of the login responses: up to MaxLoginLines lines joined by
\* newlines, and the body the ClientLogin service documents.
LoginLines == {<<"S", "I", "D", "=", "s">>, <<"A", "u", "t", "h", "=", "t">>, <<>>}

LoginExample == <<"S", "I", "D", "=", "s", NL, "L", "S", "I", "D", "=", "l", NL, "A", "u", "t", "h", "=", "t", NL>>

LoginBodies ==
    {Join(ls, <<NL>>) : ls \in SeqsUpTo(LoginLines, MaxLoginLines)} \cup {LoginExample}

\* The body of a refused login that asks for a captcha.
CaptchaBody == <<"E", "r", "r", "o", "r", "=", "C", NL, "T", "o", "k", "e", "n", "=", "c", NL, "U", "r", "l", "=", "u", NL>>

\* An HTTP exchange as its caller sees it: err (the transport failed), the
\* status code, readErr (ioutil.ReadAll failed), the body.
NoRes == [err |-> FALSE, status |-> 0, body |-> <<>>]

LoginResponses ==
    {[err |-> TRUE, status |-> 0, body |-> <<>>],
     [err |-> FALSE, status |-> 403, body |-> <<"E", "r", "r", "o", "r", "=", "B", "a", "d", "A", "u", "t", "h", "e", "n", "t", "i", "c", "a", "t", "i", "o", "n", NL>>],
     [err |-> FALSE, status |-> 403, body |-> CaptchaBody]} \cup
    {[err |-> FALSE, status |-> 200, body |-> b] : b \in LoginBodies}

\* res.Status for the status codes of the model.
StatusLine(code) ==
    CASE code = 200 -> <<"2", "0", "0", " ", "O", "K">>
      [] code = 201 -> <<"2", "0", "1", " ", "C", "r", "e", "a", "t", "e", "d">>
      [] code = 403 -> <<"4", "0", "3", " ", "F", "o", "r", "b", "i", "d", "d", "e", "n">>
      [] OTHER -> <<"5", "0", "0", " ", "I", "n", "t", "e", "r", "n", "a", "l", " ", "S", "e", "r", "v", "e", "r", " ", "E", "r", "r", "o", "r">>

\* Entries as xml.Unmarshal yields them. Content is given as the tree
\* html.Parse builds from it.
Entry(id, title, content) == [Id |-> id, Title |-> title, Content |-> content]

PlainContent ==
    Node("DocumentNode", <<>>,
         <<Node("ElementNode", <<>>, <<Node("TextNode", <<"a">>, <<>>)>>)>>)

CommentContent ==
    Node("DocumentNode", <<>>,
         <<Node("ElementNode", <<>>, <<Node("CommentNode", <<>>, <<>>)>>)>>)

Entry1 == Entry(<<"i", "1">>, <<"T", "1">>, PlainContent)
Entry2 == Entry(<<"i", "2">>, <<"T", "2">>, CommentContent)

\* What a feed endpoint answers: decoded is FALSE when xml.Unmarshal fails.
FeedBody(decoded, entries) == [decoded |-> decoded, entries |-> entries]

FeedResponse(e, status, readErr, body) ==
    [err |-> e, status |-> status, readErr |-> readErr, body |-> body]

FeedBodies ==
    {FeedBody(FALSE, <<>>), FeedBody(TRUE, <<>>), FeedBody(TRUE, <<Entry1>>),
     FeedBody(TRUE, <<Entry1, Entry2>>)}

FeedResponses ==
    {FeedResponse(TRUE, 0, FALSE, FeedBody(FALSE, <<>>)),
     FeedResponse(FALSE, 200, TRUE, FeedBody(FALSE, <<>>))} \cup
    {FeedResponse(FALSE, st, FALSE, b) : st \in {200, 403}, b \in FeedBodies}

\* What the create endpoint answers: 201 Created on success.
CreateResponses ==
    {FeedResponse(TRUE, 0, FALSE, FeedBody(FALSE, <<>>))} \cup
    {FeedResponse(FALSE, st, FALSE, FeedBody(FALSE, <<>>)) : st \in {200, 201, 403, 500}}

-----------------------------------------------------------------------------
(* The draft of createIssue: the template, the edited file, its parsing.   *)

\* The temporary file: absent, or present with its contents.
Absent == [exists |-> FALSE, data |-> <<>>]
Present(data) == [exists |-> TRUE, data |-> data]

\* The lines of the raw string literal `contents`; the literal ends with a
\* newline, hence the empty last line.
TemplateLines ==
   <<
      <<"f", "r", "o", "m", ":", " ">>,
      <<"t", "i", "t", "l", "e", ":", " ">>,
      <<"-", "-", "-", "-", "-", "-", "-", "-", "-", "-", "-", "-", "-", "-">>,
      <<"B", "e", "f", "o", "r", "e", " ", "f", "i", "l", "i", "n", "g", " ", "a", " ", "b", "u", "g", ",", " ", "p", "l", "e", "a", "s", "e", " ", "c", "h", "e", "c", "k", " ", "w", "h", "e", "t", "h", "e", "r", " ", "i", "t", " ", "h", "a", "s", " ", "b", "e", "e", "n", " ", "f", "i", "x", "e", "d", " ", "s", "i", "n", "c", "e">>,
      <<"t", "h", "e", " ", "l", "a", "t", "e", "s", "t", " ", "r", "e", "l", "e", "a", "s", "e", ":", " ", "r", "u", "n", " ", "\"", "h", "g", " ", "p", "u", "l", "l", " ", "-", "u", "\"", " ", "a", "n", "d", " ", "r", "e", "t", "r", "y", " ", "w", "h", "a", "t", " ", "y", "o", "u", " ", "d", "i", "d", " ", "t", "o">>,
      <<"r", "e", "p", "r", "o", "d", "u", "c", "e", " ", "t", "h", "e", " ", "p", "r", "o", "b", "l", "e", "m", ".", " ", " ", "T", "h", "a", "n", "k", "s", ".">>,
      <<>>,
      <<"W", "h", "a", "t", " ", "s", "t", "e", "p", "s", " ", "w", "i", "l", "l", " ", "r", "e", "p", "r", "o", "d", "u", "c", "e", " ", "t", "h", "e", " ", "p", "r", "o", "b", "l", "e", "m", "?">>,
      <<"1", ".">>,
      <<"2", ".">>,
      <<"3", ".">>,
      <<>>,
      <<"W", "h", "a", "t", " ", "i", "s", " ", "t", "h", "e", " ", "e", "x", "p", "e", "c", "t", "e", "d", " ", "o", "u", "t", "p", "u", "t", "?">>,
      <<>>,
      <<>>,
      <<"W", "h", "a", "t", " ", "d", "o", " ", "y", "o", "u", " ", "s", "e", "e", " ", "i", "n", "s", "t", "e", "a", "d", "?">>,
      <<>>,
      <<>>,
      <<"W", "h", "i", "c", "h", " ", "c", "o", "m", "p", "i", "l", "e", "r", " ", "a", "r", "e", " ", "y", "o", "u", " ", "u", "s", "i", "n", "g", " ", "(", "5", "g", ",", " ", "6", "g", ",", " ", "8", "g", ",", " ", "g", "c", "c", "g", "o", ")", "?">>,
      <<>>,
      <<>>,
      <<"W", "h", "i", "c", "h", " ", "o", "p", "e", "r", "a", "t", "i", "n", "g", " ", "s", "y", "s", "t", "e", "m", " ", "a", "r", "e", " ", "y", "o", "u", " ", "u", "s", "i", "n", "g", "?">>,
      <<>>,
      <<>>,
      <<"W", "h", "i", "c", "h", " ", "r", "e", "v", "i", "s", "i", "o", "n", " ", "a", "r", "e", " ", "y", "o", "u", " ", "u", "s", "i", "n", "g", "?", " ", " ", "(", "h", "g", " ", "i", "d", "e", "n", "t", "i", "f", "y", ")">>,
      <<>>,
      <<>>,
      <<"P", "l", "e", "a", "s", "e", " ", "p", "r", "o", "v", "i", "d", "e", " ", "a", "n", "y", " ", "a", "d", "d", "i", "t", "i", "o", "n", "a", "l", " ", "i", "n", "f", "o", "r", "m", "a", "t", "i", "o", "n", " ", "b", "e", "l", "o", "w", ".">>,
      <<>>
   >>

\* contents, with "\n" replaced by "\r\n" on windows.
Contents(os) ==
    IF os = "windows" THEN Replace(Join(TemplateLines, <<NL>>), <<NL>>, <<CR, NL>>)
    ELSE Join(TemplateLines, <<NL>>)

\* What the editor may leave in the file: up to three header lines and up to
\* MaxBodyLines body lines, with either line ending.
Line0s == {<<"f", "r", "o", "m", ":", " ", "A", "l", "i", "c", "e">>, <<"f", "r", "o", "m", ":", " ">>, <<"F", "r", "o", "m", ":", " ", "A", "l", "i", "c", "e">>, <<>>}
Line1s == {<<"t", "i", "t", "l", "e", ":", " ", "B", "u", "g", " ", "X">>, <<"t", "i", "t", "l", "e", ":", " ">>, <<"T", "i", "t", "l", "e", ":", " ", "B", "u", "g", " ", "X">>}
Line2s == {<<"-", "-", "-", "-", "-", "-", "-", "-", "-", "-", "-", "-", "-", "-">>, <<"f", "r", "o", "m", ":", " ", "E", "v", "e">>}
BodyLines == {<<"a", "<", "b">>, <<>>}

DraftLineSeqs ==
    {<<>>} \cup {<<l0>> : l0 \in Line0s} \cup
    {<<l0, l1>> : l0 \in Line0s, l1 \in Line1s} \cup
    {<<l0, l1, l2>> \o b :
        l0 \in Line0s, l1 \in Line1s, l2 \in Line2s,
        b \in SeqsUpTo(BodyLines, MaxBodyLines)}

Drafts == {Join(ls, eol) : ls \in DraftLineSeqs, eol \in {<<NL>>, <<CR, NL>>}}

\* text := string(b), with "\r\n" replaced by "\n" on windows.
DraftText(os, data) ==
    IF os = "windows" THEN Replace(data, <<CR, NL>>, <<NL>>) ELSE data

\* The checks of createIssue on the lines of the draft, each TRUE when the
\* draft passes it.
LineCountOK(lines) == ~(Len(lines) < 4)
\* FromOK with the prefix compared without regard to case.
FromOKAnyCase(from) ==
    ~(Len(from) < 7 \/ SliceTo(from, 6) \notin {<<"f", "r", "o", "m", ":", " ">>, <<"F", "r", "o", "m", ":", " ">>})

\* TitleOK with the prefix alone accepted: 7 for 8.
TitleOKPrefixOnly(title) == ~(Len(title) < 7 \/ SliceTo(title, 7) # <<"t", "i", "t", "l", "e", ":", " ">>)

FromOK(from) == ~(Len(from) < 7 \/ SliceTo(from, 6) # <<"f", "r", "o", "m", ":", " ">>)
TitleOK(title) == ~(Len(title) < 8 \/ SliceTo(title, 7) # <<"t", "i", "t", "l", "e", ":", " ">>)

\* from = from[6:], title = title[7:], body := strings.Join(lines[3:], "\n")
FromOf(lines) == SliceFrom(lines[1], 6)
TitleOf(lines) == SliceFrom(lines[2], 7)
\* BodyOf with the separator line kept: lines[2:] for lines[3:].
BodyOfFromSeparator(lines) == Join(SliceFrom(lines, 2), <<NL>>)

BodyOf(lines) == Join(SliceFrom(lines, 3), <<NL>>)

NoDraft == [from |-> <<>>, title |-> <<>>, body |-> <<>>]

\* The parsing of the text: ok is FALSE when a check calls log.Fatal.
ParseDraft(txt) ==
    LET lines == Split(txt, <<NL>>) IN
    IF LineCountOK(lines) /\ FromOK(lines[1]) /\ TitleOK(lines[2])
    THEN [ok |-> TRUE,
          fields |-> [from |-> FromOf(lines), title |-> TitleOf(lines),
                      body |-> BodyOf(lines)]]
    ELSE [ok |-> FALSE, fields |-> NoDraft]

\* The Atom document of createIssue's fmt.Sprintf, as the values of its four
\* %s verbs; the rest of the document is fixed text.
NoDoc == [title |-> <<>>, content |-> <<>>, author |-> <<>>, summary |-> <<>>]

AtomEntry(d) ==
    [title |-> xmlEscape(d.title), content |-> xmlEscape(d.body),
     author |-> xmlEscape(d.from), summary |-> xmlEscape(d.title)]

\* The outcomes of run(argv): nil, or the error of LookPath, StartProcess,
\* Wait, or of an editor that did not exit with status 0.
RunErrs ==
    {NoErr, "executable file not found", "fork/exec failed", "wait failed",
     "failed to execute text editor"}

\* RunFailed with only the failures to find and start the editor.
RunFailedOnLaunchOnly(e) == e \in {"executable file not found", "fork/exec failed"}

\* createIssue's check of run's result: TRUE when it calls log.Fatal.
RunFailed(e) == e # NoErr

\* file: the elements filepath.Join puts together; newf is the decimal of
\* rand.Int() followed by ".txt".
FilePath(os) ==
    IF os = "windows"
    THEN <<"USERPROFILE", "Application Data", "goissue", "newf.txt">>
    ELSE <<"HOME", ".config", "goissue", "newf.txt">>

\* The values os.Getenv("EDITOR") can return.
EditorEnvs == {"", "emacs"}

\* editor: $EDITOR, or the platform's default when it is empty.
EditorOf(env, os) ==
    IF env = "" THEN (IF os = "windows" THEN "notepad" ELSE "vim") ELSE env

\* A call createIssue makes of the operating system, with its outcome.
Call(fn, argv, e) == [fn |-> fn, argv |-> argv, err |-> e]

-----------------------------------------------------------------------------
(* One run of main().                                                      *)

NoMsg == [msg |-> "", detail |-> ""]

\* Authorization with the token left out of the header.
AuthorizationWithoutToken(token) == <<"G", "o", "o", "g", "l", "e", "L", "o", "g", "i", "n", " ">>

\* The value of the Authorization header for a token.
Authorization(token) == <<"G", "o", "o", "g", "l", "e", "L", "o", "g", "i", "n", " ">> \o token

\* A request as issued, with the outcome of the exchange.
Request(op, arg, authorization, doc, r) ==
    [op |-> op, arg |-> arg, authorization |-> authorization, doc |-> doc,
     err |-> r.err, status |-> r.status]

\* os.Exit(code) after msg was written to standard error. Deferred calls do
\* not run.
Exit(code, msg, detail) ==
    /\ pc' = "exit"
    /\ exitCode' = code
    /\ stderr' = [msg |-> msg, detail |-> detail]

\* log.Fatal(msg, detail): the message, then os.Exit(1).
Fatal(msg, detail) == Exit(1, msg, detail)

\* main returns: exit status 0.
Return == pc' = "exit" /\ exitCode' = 0 /\ UNCHANGED stderr

MainIdle ==
    /\ pc = "idle" /\ goos = "linux" /\ create = FALSE /\ search = <<>>
    /\ comment = FALSE /\ args = <<>> /\ argi = 0 /\ res = NoRes /\ auth = <<>>
    /\ net = <<>> /\ stdout = <<>> /\ stderr = NoMsg /\ exitCode = -1
    /\ file = Absent /\ draft = NoDraft /\ calls = <<>>

MainInit ==
    /\ pc = "main"
    /\ goos \in {"linux", "windows"}
    /\ create \in BOOLEAN
    /\ search \in SearchWords
    /\ comment \in BOOLEAN
    /\ args \in SeqsUpTo(Ids, MaxArgs)
    /\ argi = 0 /\ res = NoRes /\ auth = <<>>
    /\ net = <<>> /\ stdout = <<>> /\ stderr = NoMsg /\ exitCode = -1
    /\ file = Absent /\ draft = NoDraft /\ calls = <<>>

\* TooManyArgs with the limit off by one.
TooManyArgsAboveTwo(n) == n > 2

\* main's check of flag.NArg().
TooManyArgs(n) == n > 1

\* main, up to the usage check: flags are parsed, more than one positional
\* argument prints the usage and exits with status 1.
ParseFlags ==
    /\ pc = "main"
    /\ IF TooManyArgs(Len(args))
       THEN Exit(1, "Usage: goissue [-c ID | -s WORD]", "")
       ELSE pc' = "getConfig" /\ UNCHANGED <<exitCode, stderr>>
    /\ UNCHANGED <<goos, create, search, comment, args, argi, res, auth, net,
                   stdout, file, draft,
                   calls, dumpVars, escVars>>

\* The states of the settings file getConfig can meet.
ConfigFiles == {"unreadable", "not json", "no email", "no password", "ok"}

\* getConfig: fatal unless the settings file is readable JSON with an email
\* and a password.
GetConfig ==
    /\ pc = "getConfig"
    /\ \E cfg \in ConfigFiles :
         CASE cfg = "unreadable" -> Fatal("failed to read file:", cfg)
           [] cfg = "not json" -> Fatal("failed to unmarhal settings.json:", cfg)
           [] cfg = "no email" ->
                Fatal("failed to get email from your settings.json:", "")
           [] cfg = "no password" ->
                Fatal("failed to get email from your settings.json:", "")
           [] OTHER -> pc' = "authLogin" /\ UNCHANGED <<exitCode, stderr>>
    /\ UNCHANGED <<goos, create, search, comment, args, argi, res, auth, net,
                   stdout, file, draft,
                   calls, dumpVars, escVars>>

\* authLogin, the exchange: http.PostForm and ioutil.ReadAll.
AuthLoginPost ==
    /\ pc = "authLogin"
    /\ \E r \in LoginResponses :
         /\ res' = r
         /\ net' = Append(net, Request("login", <<>>, <<>>, NoDoc, r))
    /\ pc' = "authLogin_res"
    /\ UNCHANGED <<goos, create, search, comment, args, argi, auth, stdout,
                   stderr, exitCode, file, draft,
                   calls, dumpVars, escVars>>

\* LoginFailed without the check of the status.
LoginFailedOnTransportOnly(r) == r.err

\* authLogin's two checks of the exchange: TRUE when it calls log.Fatal.
LoginFailed(r) == r.err \/ r.status # 200

\* TokenOf with the index off by one: lines[1].
TokenOfSecondLine(lines) == lines[2]

\* return lines[2]
TokenOf(lines) == lines[3]

\* authLogin, after the exchange: fatal on a transport error or a status
\* other than 200; the token is lines[2], and the index panics (exit status
\* 2) when there are fewer than three lines.
AuthLoginToken ==
    /\ pc = "authLogin_res"
    /\ LET lines == Split(res.body, <<NL>>) IN
       IF LoginFailed(res)
       THEN /\ Fatal("failed to authenticate:",
                     IF res.err THEN "transport" ELSE "status")
            /\ UNCHANGED auth
       ELSE IF Len(lines) < 3
       THEN /\ Exit(2, "panic: runtime error: index out of range", "")
            /\ UNCHANGED auth
       ELSE /\ auth' = TokenOf(lines)
            /\ pc' = "dispatch"
            /\ UNCHANGED <<exitCode, stderr>>
    /\ res' = NoRes
    /\ UNCHANGED <<goos, create, search, comment, args, argi, net, stdout,
                   file, draft,
                   calls, dumpVars, escVars>>

\* main's if/else chain on the flags and the argument count.
Dispatch ==
    /\ pc = "dispatch"
    /\ pc' = IF create THEN "createIssue"
             ELSE IF Len(search) > 0 THEN "searchIssues"
             ELSE IF Len(args) = 0 THEN "showIssues"
             ELSE "loop"
    /\ UNCHANGED <<goos, create, search, comment, args, argi, res, auth, net,
                   stdout, stderr, exitCode, file, draft,
                   calls, dumpVars, escVars>>

\* FeedFailed without the check of the status.
FeedFailedOnTransportOnly(r) == r.err

\* The checks the four reading operations make of the exchange: TRUE when
\* the operation calls log.Fatal before it reads the body.
FeedFailed(r) == r.err \/ r.status # 200

\* fmt.Println(entry.Id + ": " + entry.Title) for each entry of the feed.
RECURSIVE PrintEntries(_, _)
PrintEntries(w, entries) ==
    IF Len(entries) = 0 THEN w
    ELSE PrintEntries(Append(w, entries[1].Id \o <<":", " ">> \o entries[1].Title),
                      Tail(entries))

\* fmt.Println(entry.Title, "\n", text): the operands with spaces between.
DetailLine(title, txt) == title \o <<" ", NL, " ">> \o txt

\* The loop of showComments: each entry's content is flattened and printed,
\* and the first flattening error is fatal after the earlier entries were
\* printed.
RECURSIVE PrintComments(_, _)
PrintComments(w, entries) ==
    IF Len(entries) = 0 THEN [w |-> w, err |-> NoErr]
    ELSE LET d == dump(entries[1].Content) IN
         IF d.err # NoErr THEN [w |-> w, err |-> d.err]
         ELSE PrintComments(Append(w, DetailLine(entries[1].Title, d.text)),
                            Tail(entries))

\* A reading operation that prints a feed's entries: the request, then
\* fatal on a failed exchange, a failed read or a failed decoding.
ListFeed(op, arg, msg) ==
    \E r \in FeedResponses :
       /\ net' = Append(net, Request(op, arg, Authorization(auth), NoDoc, r))
       /\ IF FeedFailed(r) THEN Fatal(msg, IF r.err THEN "transport" ELSE "status")
                                /\ UNCHANGED stdout
          ELSE IF r.readErr THEN Fatal("failed to parse xml:", "read")
                                /\ UNCHANGED stdout
          ELSE IF ~r.body.decoded THEN Fatal("failed to parse xml:", "decode")
                                /\ UNCHANGED stdout
          ELSE stdout' = PrintEntries(stdout, r.body.entries) /\ Return

\* showIssues(auth)
ShowIssues ==
    /\ pc = "showIssues"
    /\ ListFeed("list", <<>>, "failed to get issues:")
    /\ UNCHANGED <<goos, create, search, comment, args, argi, res, auth, file,
                   draft,
                   calls, dumpVars, escVars>>

\* searchIssues(auth, *search)
SearchIssues ==
    /\ pc = "searchIssues"
    /\ ListFeed("search", search, "failed to get issues:")
    /\ UNCHANGED <<goos, create, search, comment, args, argi, res, auth, file,
                   draft,
                   calls, dumpVars, escVars>>

\* main's for loop: its condition, and its end.
Loop ==
    /\ pc = "loop"
    /\ IF argi < Len(args)
       THEN pc' = "showIssue" /\ UNCHANGED <<exitCode, stderr>>
       ELSE Return
    /\ UNCHANGED <<goos, create, search, comment, args, argi, res, auth, net,
                   stdout, file, draft,
                   calls, dumpVars, escVars>>

\* What the single-issue endpoint answers: an entry, when it decodes.
ShowResponses ==
    {r \in FeedResponses : Len(r.body.entries) = 1} \cup
    {FeedResponse(FALSE, 200, FALSE, FeedBody(TRUE, <<Entry2>>))} \cup
    {r \in FeedResponses : ~r.body.decoded}

\* showIssue(auth, flag.Arg(i)), and the step of main's loop after it.
ShowIssue ==
    /\ pc = "showIssue"
    /\ \E r \in ShowResponses :
       LET d == dump(r.body.entries[1].Content) IN
       /\ net' = Append(net, Request("show", args[argi + 1], Authorization(auth),
                                     NoDoc, r))
       /\ IF FeedFailed(r)
          THEN /\ Fatal(IF r.err THEN "failed to get issue:"
                        ELSE "failed to authenticate:",
                        IF r.err THEN "transport" ELSE "status")
               /\ UNCHANGED <<stdout, argi>>
          ELSE IF r.readErr \/ ~r.body.decoded
          THEN /\ Fatal("failed to get issue:", IF r.readErr THEN "read" ELSE "decode")
               /\ UNCHANGED <<stdout, argi>>
          ELSE IF d.err # NoErr
          THEN /\ Fatal("failed to parse xml:", d.err)
               /\ UNCHANGED <<stdout, argi>>
          ELSE /\ stdout' = Append(stdout, DetailLine(r.body.entries[1].Title, d.text))
               /\ IF comment THEN pc' = "showComments" /\ UNCHANGED argi
                  ELSE pc' = "loop" /\ argi' = argi + 1
               /\ UNCHANGED <<exitCode, stderr>>
    /\ UNCHANGED <<goos, create, search, comment, args, res, auth, file, draft,
                   calls, dumpVars, escVars>>

\* showComments(auth, flag.Arg(i)), and the step of main's loop after it.
ShowComments ==
    /\ pc = "showComments"
    /\ \E r \in FeedResponses :
       LET p == PrintComments(stdout, r.body.entries) IN
       /\ net' = Append(net, Request("comments", args[argi + 1],
                                     Authorization(auth), NoDoc, r))
       /\ IF FeedFailed(r)
          THEN /\ Fatal(IF r.err THEN "failed to get comments:"
                        ELSE "failed to authenticate:",
                        IF r.err THEN "transport" ELSE "status")
               /\ UNCHANGED <<stdout, argi>>
          ELSE IF r.readErr
          THEN /\ Fatal("failed to parse xml:", "read")
               /\ UNCHANGED <<stdout, argi>>
          ELSE IF ~r.body.decoded
          THEN /\ Fatal("failed to get comments:", "decode")
               /\ UNCHANGED <<stdout, argi>>
          ELSE IF p.err # NoErr
          THEN /\ Fatal("failed to parse xml:", p.err)
               /\ stdout' = p.w
               /\ UNCHANGED argi
          ELSE /\ stdout' = p.w
               /\ pc' = "loop" /\ argi' = argi + 1
               /\ UNCHANGED <<exitCode, stderr>>
    /\ UNCHANGED <<goos, create, search, comment, args, res, auth, file, draft,
                   calls, dumpVars, escVars>>

\* createIssue, up to ioutil.WriteFile: the removal of the file is deferred
\* and the template is written. WriteFile's error is dropped, so a failed
\* write leaves no file and the workflow goes on.
CreateIssueTemplate ==
    /\ pc = "createIssue"
    /\ \E written \in BOOLEAN :
         /\ file' = IF written THEN Present(Contents(goos)) ELSE Absent
         /\ calls' = Append(calls, Call("WriteFile", <<FilePath(goos)>>,
                                        IF written THEN NoErr ELSE "write failed"))
    /\ pc' = "createIssue_run"
    /\ UNCHANGED <<goos, create, search, comment, args, argi, res, auth, net,
                   stdout, stderr, exitCode, draft,
                   dumpVars, escVars>>

\* run([]string{editor, file}): the editor runs in the foreground and may
\* rewrite or delete the file; an error of run is fatal.
CreateIssueRun ==
    /\ pc = "createIssue_run"
    /\ \E e \in RunErrs, f \in {file, Absent} \cup {Present(d) : d \in Drafts},
          env \in EditorEnvs :
         /\ e # NoErr => f = file
         /\ file' = f
         /\ calls' = Append(calls, Call("run", <<EditorOf(env, goos), FilePath(goos)>>, e))
         /\ IF RunFailed(e) THEN Fatal("failed to create issue:", e)
            ELSE pc' = "createIssue_read" /\ UNCHANGED <<exitCode, stderr>>
    /\ UNCHANGED <<goos, create, search, comment, args, argi, res, auth, net,
                   stdout, draft,
                   dumpVars, escVars>>

\* createIssue, from ioutil.ReadFile to the body: the file is read again and
\* parsed; a failed read or a failed check is fatal.
CreateIssueRead ==
    /\ pc = "createIssue_read"
    /\ LET p == ParseDraft(DraftText(goos, file.data)) IN
       IF ~file.exists
       THEN Fatal("failed to create issue:", "no such file") /\ UNCHANGED draft
       ELSE IF ~p.ok
       THEN Fatal("failed to create issue", "") /\ UNCHANGED draft
       ELSE /\ draft' = p.fields
            /\ pc' = "createIssue_post"
            /\ UNCHANGED <<exitCode, stderr>>
    /\ calls' = Append(calls, Call("ReadFile", <<FilePath(goos)>>,
                                   IF file.exists THEN NoErr ELSE "no such file"))
    /\ UNCHANGED <<goos, create, search, comment, args, argi, res, auth, net,
                   stdout, file,
                   dumpVars, escVars>>

\* createIssue's check of the exchange: TRUE when it calls log.Fatal.
CreateFailed(r) == r.err

\* createIssue, from fmt.Sprintf to its end: the document is posted; a
\* transport error is fatal, any response has its status line printed, and
\* on return the deferred os.Remove(file) runs.
CreateIssuePost ==
    /\ pc = "createIssue_post"
    /\ \E r \in CreateResponses :
         /\ net' = Append(net, Request("create", <<>>, Authorization(auth),
                                       AtomEntry(draft), r))
         /\ IF CreateFailed(r)
            THEN /\ Fatal("failed to get issue:", "transport")
                 /\ UNCHANGED <<stdout, file, calls>>
            ELSE /\ stdout' = Append(stdout, StatusLine(r.status))
                 /\ file' = Absent
                 /\ calls' = Append(calls, Call("Remove", <<FilePath(goos)>>, NoErr))
                 /\ Return
    /\ UNCHANGED <<goos, create, search, comment, args, argi, res, auth, draft,
                   dumpVars, escVars>>

Next ==
    \/ ParseFlags
    \/ GetConfig
    \/ AuthLoginPost
    \/ AuthLoginToken
    \/ Dispatch
    \/ ShowIssues
    \/ SearchIssues
    \/ Loop
    \/ ShowIssue
    \/ ShowComments
    \/ CreateIssueTemplate
    \/ CreateIssueRun
    \/ CreateIssueRead
    \/ CreateIssuePost

-----------------------------------------------------------------------------
(* The specifications.                                                     *)

\* One run of main().
Init == MainInit /\ DumpIdle /\ EscIdle
Spec == Init /\ [][Next]_vars

\* dump applied to a tree.
InitDump == MainIdle /\ DumpInit /\ EscIdle
SpecDump == InitDump /\ [][DumpNext]_vars

\* xmlEscape applied to a string, and to its own output.
InitEscape == MainIdle /\ DumpIdle /\ EscInit
SpecEscape == InitEscape /\ [][EscNext]_vars

-----------------------------------------------------------------------------
(* Notions the properties are stated in. They are defined from positions   *)
(* in the text, not by the operators that model the code.                  *)

\* The positions of the newlines of str, and the number of its lines.
NewlinesOf(str) == {i \in 1..Len(str) : str[i] = NL}
LineCount(str) == Cardinality(NewlinesOf(str)) + 1

\* The position of the k-th newline of str, for k in 1..LineCount(str)-1.
NewlineAt(str, k) ==
    CHOOSE p \in NewlinesOf(str) :
        Cardinality({q \in NewlinesOf(str) : q < p}) = k - 1

\* The k-th of the newline-separated lines of str, for k in 1..LineCount(str).
LineOf(str, k) ==
    SubSeq(str,
           IF k = 1 THEN 1 ELSE NewlineAt(str, k - 1) + 1,
           IF k = LineCount(str) THEN Len(str) ELSE NewlineAt(str, k) - 1)

\* The k-th line of the draft in the file as createIssue takes it: on
\* windows a carriage return that ends a line before a newline is dropped.
DraftLine(k) ==
    LET l == LineOf(file.data, k) IN
    IF goos = "windows" /\ k < LineCount(file.data) /\ Len(l) > 0 /\ l[Len(l)] = CR
    THEN SubSeq(l, 1, Len(l) - 1)
    ELSE l

\* Lines k onward of the draft, rejoined with newlines.
RECURSIVE DraftLinesFrom(_)
DraftLinesFrom(k) ==
    IF k > LineCount(file.data) THEN <<>>
    ELSE IF k = LineCount(file.data) THEN DraftLine(k)
    ELSE DraftLine(k) \o <<NL>> \o DraftLinesFrom(k + 1)

HasPrefix(str, p) == Len(str) >= Len(p) /\ SubSeq(str, 1, Len(p)) = p
AfterPrefix(str, p) == SubSeq(str, Len(p) + 1, Len(str))

FromPrefix == <<"f", "r", "o", "m", ":", " ">>
TitlePrefix == <<"t", "i", "t", "l", "e", ":", " ">>

\* What the parsing of the draft in the file is to yield.
ExpectedDraft ==
    [from |-> AfterPrefix(DraftLine(1), FromPrefix),
     title |-> AfterPrefix(DraftLine(2), TitlePrefix),
     body |-> DraftLinesFrom(4)]

\* The draft in the file has at least four lines and both prefixes.
WellFormedDraft ==
    /\ LineCount(file.data) >= 4
    /\ HasPrefix(DraftLine(1), FromPrefix)
    /\ HasPrefix(DraftLine(2), TitlePrefix)

-----------------------------------------------------------------------------
(* C1. Draft parsing.                                                      *)

\* C1 as claimed: every re-read draft of at least 4 lines whose line 0
\* begins with "from: " and whose line 1 begins with "title: " is parsed, to
\* from = the rest of line 0, title = the rest of line 1 and body = lines 3
\* onward rejoined with newlines. The code refuses a line 0 that is exactly
\* "from: " and a line 1 that is exactly "title: ".
C1_AsClaimed ==
    [][(pc = "createIssue_read" /\ file.exists /\ WellFormedDraft)
          => (pc' = "createIssue_post" /\ draft' = ExpectedDraft)]_vars

\* C1, amended: every re-read draft of at least 4 lines whose line 0 is
\* "from: " followed by at least one byte and whose line 1 is "title: "
\* followed by at least one byte is parsed, to from = the rest of line 0,
\* title = the rest of line 1 and body = lines 3 onward rejoined with
\* newlines, whatever line 2 holds.
C1_DraftParsing ==
    [][(/\ pc = "createIssue_read" /\ file.exists /\ WellFormedDraft
        /\ Len(DraftLine(1)) > Len(FromPrefix)
        /\ Len(DraftLine(2)) > Len(TitlePrefix))
          => (pc' = "createIssue_post" /\ draft' = ExpectedDraft)]_vars

\* The example of the specification parsed, with a line 2 that is no
\* separator and a body of two lines.
C1_Witness ==
    /\ pc = "createIssue_post"
    /\ LineOf(file.data, 3) = <<"f", "r", "o", "m", ":", " ", "E", "v", "e">>
    /\ draft = [from |-> <<"A", "l", "i", "c", "e">>, title |-> <<"B", "u", "g", " ", "X">>, body |-> <<"a", "<", "b", NL, "a", "<", "b">>]

-----------------------------------------------------------------------------
(* C2. Draft validation failure.                                           *)

GenericCreateError == [msg |-> "failed to create issue", detail |-> ""]

CreateRequests == {i \in 1..Len(net) : net[i].op = "create"}

\* C2: a re-read draft of fewer than 4 lines, or whose line 0 does not begin
\* with "from: ", or whose line 1 does not begin with "title: ", ends the run
\* with the bare "failed to create issue" message and exit status 1, and no
\* create request is issued, then or later.
C2_DraftRejected ==
    /\ [][(pc = "createIssue_read" /\ file.exists /\ ~WellFormedDraft)
            => (/\ pc' = "exit" /\ exitCode' = 1
                /\ stderr' = GenericCreateError
                /\ net' = net)]_vars
    /\ [](stderr = GenericCreateError => pc = "exit" /\ CreateRequests = {})

\* A draft of five lines whose first line has the wrong case was rejected.
C2_Witness ==
    /\ pc = "exit"
    /\ stderr = GenericCreateError
    /\ file.exists
    /\ LineCount(file.data) = 5
    /\ LineOf(file.data, 1) = <<"F", "r", "o", "m", ":", " ", "A", "l", "i", "c", "e">>
    /\ LineOf(file.data, 2) = <<"t", "i", "t", "l", "e", ":", " ", "B", "u", "g", " ", "X">>

-----------------------------------------------------------------------------
(* C3. Removal of the temporary draft file.                                *)

\* C3 as claimed: when the run has ended, the temporary draft file is gone.
\* The removal is deferred in createIssue, and log.Fatal ends the process
\* without running deferred calls, so every failing end of the workflow
\* after the template was written leaves the file behind.
C3_TempFileRemoved == pc = "exit" => ~file.exists

-----------------------------------------------------------------------------
(* C4. A failed login stops the run.                                       *)

FeedOps == {"list", "search", "show", "comments", "create"}

LoginOK(r) == r.op = "login" /\ ~r.err /\ r.status = 200

\* C4: every feed request is preceded by a login that returned status 200;
\* a login that failed in transport or returned another status is the only
\* request of the run, which ends with "failed to authenticate:" and exit
\* status 1 as soon as the response is examined.
C4_AuthGate ==
    /\ \A i \in 1..Len(net) :
          net[i].op \in FeedOps => \E j \in 1..(i - 1) : LoginOK(net[j])
    /\ \A j \in 1..Len(net) :
          (net[j].op = "login" /\ ~LoginOK(net[j]))
             => /\ Len(net) = 1
                /\ pc \in {"authLogin_res", "exit"}
                /\ pc = "exit" =>
                      exitCode = 1 /\ stderr.msg = "failed to authenticate:"

\* The run ended on a login answered 403, with no other request.
C4_Witness ==
    /\ pc = "exit"
    /\ Len(net) = 1
    /\ net[1].op = "login" /\ net[1].status = 403
    /\ stderr = [msg |-> "failed to authenticate:", detail |-> "status"]

-----------------------------------------------------------------------------
(* C5. Dispatch on the positional arguments.                               *)

UsageMsg == [msg |-> "Usage: goissue [-c ID | -s WORD]", detail |-> ""]

\* The run ended by log.Fatal or by a panic.
EndedByFailure == exitCode = 2 \/ (exitCode = 1 /\ stderr # UsageMsg)

\* The feed requests of the run, in the order issued.
IsFeedRequest(r) == r.op \in FeedOps
IsShowRequest(r) == r.op = "show"
FeedRequests == SelectSeq(net, IsFeedRequest)
ShowRequests == SelectSeq(net, IsShowRequest)

\* The ids the run asked to be shown, in the order asked.
ShownIds == [i \in 1..Len(ShowRequests) |-> ShowRequests[i].arg]

\* C5 as claimed: without -C and -s, a run that no failure ended has listed
\* all issues when there is no positional argument, and has issued a show
\* request for each of its n >= 1 positional arguments, in order. The code
\* prints its usage and exits with status 1 when n > 1.
C5_AsClaimed ==
    (pc = "exit" /\ ~create /\ Len(search) = 0 /\ ~EndedByFailure)
       => IF Len(args) = 0
          THEN Len(FeedRequests) = 1 /\ FeedRequests[1].op = "list"
          ELSE ShownIds = args

\* C5, amended: without -C and -s, a run that no failure ended has listed
\* all issues when there is no positional argument and has issued a show
\* request for its positional argument when there is exactly one; with more
\* than one positional argument the run prints the usage and exits with
\* status 1 without issuing any request.
C5_Dispatch ==
    (pc = "exit" /\ ~create /\ Len(search) = 0)
       => /\ Len(args) > 1 =>
               /\ exitCode = 1 /\ stderr = UsageMsg
               /\ net = <<>> /\ stdout = <<>>
          /\ (Len(args) = 0 /\ ~EndedByFailure) =>
               Len(FeedRequests) = 1 /\ FeedRequests[1].op = "list"
          /\ (Len(args) = 1 /\ ~EndedByFailure) => ShownIds = args

\* A run with one positional argument ended normally after showing it.
C5_Witness ==
    /\ pc = "exit" /\ exitCode = 0
    /\ ~create /\ Len(search) = 0
    /\ args = <<<<"2">>>>
    /\ ShownIds = <<<<"2">>>>

-----------------------------------------------------------------------------
(* C6. Failed exchanges of the feed operations.                            *)

ReadOps == {"list", "search", "show", "comments"}

\* The step issues a request of one of the operations ops.
Issues(ops) == Len(net') = Len(net) + 1 /\ net'[Len(net')].op \in ops

\* The step ends the run by log.Fatal and prints nothing.
FatalStep == pc' = "exit" /\ exitCode' = 1 /\ stdout' = stdout

\* C6 as claimed: every feed operation, createIssue included, ends the run
\* fatally and prints nothing when the exchange fails in transport or the
\* status is not 200. createIssue does not look at the status.
C6_AsClaimed ==
    [][(Issues(FeedOps) /\ (net'[Len(net')].err \/ net'[Len(net')].status # 200))
          => FatalStep]_vars

\* C6, amended: listIssues, searchIssues, showIssue and listComments end the
\* run fatally and print nothing when the exchange fails in transport or the
\* status is not 200; createIssue ends the run fatally only when the
\* exchange fails in transport, and otherwise prints the status line of the
\* response, whatever its status, and ends normally.
C6_FeedFailures ==
    [][/\ (Issues(ReadOps) /\ (net'[Len(net')].err \/ net'[Len(net')].status # 200))
            => FatalStep
       /\ (Issues({"create"}) /\ net'[Len(net')].err) => FatalStep
       /\ (Issues({"create"}) /\ ~net'[Len(net')].err)
            => /\ pc' = "exit" /\ exitCode' = 0
               /\ stdout' = Append(stdout, StatusLine(net'[Len(net')].status))]_vars

\* A list request was answered 403 and the run ended fatally with nothing
\* printed.
C6_Witness ==
    /\ pc = "exit" /\ exitCode = 1
    /\ Len(net) = 2
    /\ net[2].op = "list" /\ ~net[2].err /\ net[2].status = 403
    /\ stdout = <<>>
    /\ stderr = [msg |-> "failed to get issues:", detail |-> "status"]

-----------------------------------------------------------------------------
(* C10. The token of authLogin.                                            *)

\* C10: after a login answered 200, the token is the third newline-separated
\* line of the response body, whatever it holds; a body of fewer than three
\* lines ends the run with exit status 2 (the index panics) and no token, so
\* the login stays the only request of the run.
C10_Token ==
    /\ [][(pc = "authLogin_res" /\ ~res.err /\ res.status = 200)
            => IF LineCount(res.body) >= 3
               THEN pc' = "dispatch" /\ auth' = LineOf(res.body, 3)
               ELSE /\ pc' = "exit" /\ exitCode' = 2
                    /\ auth' = auth /\ net' = net]_vars
    /\ [](exitCode = 2 => pc = "exit" /\ Len(net) = 1 /\ auth = <<>>)

\* A token that does not begin with "Auth=" was accepted and used.
C10_Witness ==
    /\ auth = <<"S", "I", "D", "=", "s">>
    /\ Len(net) = 2
    /\ net[2].authorization = <<"G", "o", "o", "g", "l", "e", "L", "o", "g", "i", "n", " ", "S", "I", "D", "=", "s">>

-----------------------------------------------------------------------------
(* C7, C8. dump.                                                           *)

\* The nodes of a sequence of trees with their depths, in document order.
RECURSIVE Preorder(_, _)
Preorder(cs, depth) ==
    IF Len(cs) = 0 THEN <<>>
    ELSE <<[node |-> cs[1], depth |-> depth]>>
            \o Preorder(cs[1].Child, depth + 1)
            \o Preorder(Tail(cs), depth)

\* The nodes below the root of the tree dump is applied to.
BelowRoot == IF docRoot = Nil THEN <<>> ELSE Preorder(docRoot.Child, 0)

TypesBelowRoot == {BelowRoot[i].node.Type : i \in 1..Len(BelowRoot)}

Spaces(k) == [i \in 1..k |-> " "]

\* The concatenation of the sequences of a sequence.
RECURSIVE Concat(_)
Concat(ss) ==
    IF Len(ss) = 0 THEN <<>>
    ELSE Concat(SubSeq(ss, 1, Len(ss) - 1)) \o ss[Len(ss)]

\* A text node's content behind two spaces per level of depth; nothing for
\* any other node.
TextPiece(x) ==
    IF x.node.Type = "TextNode" THEN Spaces(2 * x.depth) \o x.node.Data ELSE <<>>

\* Two spaces per level of depth for every node, followed for a text node by
\* its content as fmt.Fprintf writes it when the content is the format.
NodePiece(x) ==
    Spaces(2 * x.depth) \o
    (IF x.node.Type = "TextNode" THEN Fprintf(x.node.Data) ELSE <<>>)

\* C7: on a tree of element and text nodes dump does not fail and returns
\* the text nodes' contents in document order, each behind two spaces per
\* level of its depth, element nodes adding nothing. The code hands each
\* content to fmt.Fprintf as the format string, which rewrites a '%', and
\* writes the indentation of element nodes too.
C7_TextOnly ==
    (dpc = "done" /\ TypesBelowRoot \subseteq {"ElementNode", "TextNode"})
       => dumpErr = NoErr /\ dumpText = Concat([i \in 1..Len(BelowRoot) |-> TextPiece(BelowRoot[i])])

\* What dump does return on such a tree: for every node below the root in
\* document order, element nodes included, two spaces per level of the
\* node's depth, followed for a text node by what fmt.Fprintf makes of its
\* content.
DumpOutput ==
    (dpc = "done" /\ TypesBelowRoot \subseteq {"ElementNode", "TextNode"})
       => dumpErr = NoErr /\ dumpText = Concat([i \in 1..Len(BelowRoot) |-> NodePiece(BelowRoot[i])])

\* C8: a tree with a comment node anywhere below the root makes dump return
\* an error and the empty string; a nil root and a root without children
\* make it return the empty string and no error.
C8_DumpErrors ==
    dpc = "done"
       => /\ "CommentNode" \in TypesBelowRoot => dumpErr # NoErr /\ dumpText = <<>>
          /\ (docRoot = Nil \/ Len(docRoot.Child) = 0)
                => dumpErr = NoErr /\ dumpText = <<>>

\* A comment below an element, after a text node that was already written.
C8_Witness ==
    /\ dpc = "done"
    /\ docRoot.Child =
          <<Node("TextNode", <<"a">>, <<>>),
            Node("ElementNode", <<>>, <<Node("CommentNode", <<>>, <<>>)>>)>>
    /\ dumpErr = "COMMENT"
    /\ dumpText = <<>>

-----------------------------------------------------------------------------
(* C9. xmlEscape.                                                          *)

\* The entity of a special byte; any other byte itself.
EntityOf(c) ==
    CASE c = "<" -> <<"&", "l", "t", ";">>
      [] c = ">" -> <<"&", "g", "t", ";">>
      [] c = "\"" -> <<"&", "q", "u", "o", "t", ";">>
      [] c = "'" -> <<"&", "a", "p", "o", "s", ";">>
      [] c = "&" -> <<"&", "a", "m", "p", ";">>
      [] OTHER -> <<c>>

Specials == {"<", ">", "\"", "'", "&"}

HasSpecial(str) == \E i \in 1..Len(str) : str[i] \in Specials

\* The bytes of str, each replaced by its entity.
Entities(str) == Concat([i \in 1..Len(str) |-> EntityOf(str[i])])

\* C9: xmlEscape replaces each of < > " ' & by its entity and copies every
\* other byte, in order; the example <a&b>'" gives
\* &lt;a&amp;b&gt;&apos;&quot;; escaping the output again replaces the '&'
\* of every entity, so that it differs from the output whenever the input
\* holds a special byte, and only then.
C9_Escape ==
    /\ epc \in {"once", "twice"} =>
          /\ escOut = Entities(escS)
          /\ escS = EscExample => escOut = <<"&", "l", "t", ";", "a", "&", "a", "m", "p", ";", "b", "&", "g", "t", ";", "&", "a", "p", "o", "s", ";", "&", "q", "u", "o", "t", ";">>
    /\ epc = "twice" =>
          /\ escAgain = Entities(escOut)
          /\ HasSpecial(escS) <=> escAgain # escOut

\* The example was escaped, and escaped again.
C9_Witness ==
    /\ epc = "twice"
    /\ escS = EscExample
    /\ escOut = <<"&", "l", "t", ";", "a", "&", "a", "m", "p", ";", "b", "&", "g", "t", ";", "&", "a", "p", "o", "s", ";", "&", "q", "u", "o", "t", ";">>
    /\ escAgain = <<"&", "a", "m", "p", ";", "l", "t", ";", "a", "&", "a", "m", "p", ";", "a", "m", "p", ";", "b", "&", "a", "m", "p", ";", "g", "t", ";", "&", "a", "m", "p", ";", "a", "p", "o", "s", ";", "&", "a", "m", "p", ";", "q", "u", "o", "t", ";">>

-----------------------------------------------------------------------------
(* C11. One token per run.                                                 *)

GoogleLogin == <<"G", "o", "o", "g", "l", "e", "L", "o", "g", "i", "n", " ">>

LoginRequests == {i \in 1..Len(net) : net[i].op = "login"}

\* C11: a run that issues any request issues the login first and only once,
\* and a run that ends normally has issued it; every feed request of the run,
\* each show and comments request included, carries the Authorization value
\* "GoogleLogin " followed by the token; the token is set only by the step
\* that examines the login response and never changes afterwards, and no
\* step that issues a feed request changes it.
C11_OneToken ==
    /\ [](/\ net # <<>> => LoginRequests = {1}
          /\ (pc = "exit" /\ exitCode = 0) => LoginRequests = {1}
          /\ \A i \in 1..Len(net) :
                net[i].op \in FeedOps => net[i].authorization = GoogleLogin \o auth)
    /\ [][/\ auth' # auth => (pc = "authLogin_res" /\ Len(net) = 1 /\ net' = net)
          /\ Issues(FeedOps) =>
                (auth' = auth /\ net'[Len(net')].authorization = GoogleLogin \o auth)]_vars

\* A run with -c ended normally after a show request and a comments request
\* that carry the same non-empty token behind the one login.
C11_Witness ==
    /\ pc = "exit" /\ exitCode = 0
    /\ Len(net) = 3
    /\ net[1].op = "login" /\ net[2].op = "show" /\ net[3].op = "comments"
    /\ auth # <<>>
    /\ net[2].authorization = GoogleLogin \o auth
    /\ net[3].authorization = net[2].authorization

-----------------------------------------------------------------------------
(* C12. The order of the draft workflow.                                   *)

\* The state of the workflow: 1 Init, 2 TemplateWritten, 3 Edited,
\* 4 Parsed, 5 Submitted (the create request was issued), 0 outside it.
Stage ==
    CASE pc = "createIssue" -> 1
      [] pc = "createIssue_run" -> 2
      [] pc = "createIssue_read" -> 3
      [] pc = "createIssue_post" -> 4
      [] pc = "exit" /\ CreateRequests # {} -> 5
      [] OTHER -> 0

EditorRuns == {i \in 1..Len(calls) : calls[i].fn = "run"}
FileReads == {i \in 1..Len(calls) : calls[i].fn = "ReadFile"}

\* The names of the calls made so far, in order.
CallNames == [i \in 1..Len(calls) |-> calls[i].fn]

\* C12: the workflow moves from each of Init, TemplateWritten, Edited,
\* Parsed to the next state or to the end of the run, and never back; the
\* editor is run at most once, exactly once when Edited was reached, as the
\* second call after the template's write, with the path the template was
\* written to as its only argument; when run returns an error (editor not
\* found, not started, wait failed, or not exited with status 0) the run
\* ends at once with exit status 1, and the file is not read again, nothing
\* is parsed and no create request is issued.
C12_WorkflowOrder ==
    /\ [][/\ Stage' # Stage =>
                \/ Stage' = Stage + 1
                \/ Stage \in 1..4 /\ Stage' = 0 /\ pc' = "exit" /\ exitCode' = 1
          /\ Len(calls') > Len(calls) /\ calls'[Len(calls')].fn = "run"
                /\ calls'[Len(calls')].err # NoErr => pc' = "exit"]_vars
    /\ [](/\ Cardinality(EditorRuns) <= 1
          /\ Stage >= 3 => EditorRuns = {2}
          /\ Stage = 1 => CallNames = <<>>
          /\ Stage = 2 => CallNames = <<"WriteFile">>
          /\ Stage = 3 => CallNames = <<"WriteFile", "run">>
          /\ Stage = 4 => CallNames = <<"WriteFile", "run", "ReadFile">>
          /\ \A i \in EditorRuns :
                /\ i = 2 /\ calls[1].fn = "WriteFile"
                /\ Len(calls[i].argv) = 2
                /\ calls[i].argv[2] = calls[1].argv[1]
                /\ calls[i].err # NoErr =>
                      /\ pc = "exit" /\ exitCode = 1
                      /\ stderr.msg = "failed to create issue:"
                      /\ Len(calls) = i /\ FileReads = {}
                      /\ draft = NoDraft /\ CreateRequests = {})

\* The editor named by $EDITOR ran on the written template and did not exit
\* with status 0: the run ended with the login as its only request.
C12_Witness ==
    /\ pc = "exit" /\ exitCode = 1
    /\ CallNames = <<"WriteFile", "run">>
    /\ calls[1].err = NoErr
    /\ calls[2].argv[1] = "emacs"
    /\ calls[2].err = "failed to execute text editor"
    /\ stderr = [msg |-> "failed to create issue:", detail |-> "failed to execute text editor"]
    /\ Len(net) = 1

-----------------------------------------------------------------------------
(* C13. No submission with an empty author or an empty title.              *)

\* The step refuses the draft: the bare message, exit status 1, no request.
DraftRefused ==
    /\ pc' = "exit" /\ exitCode' = 1
    /\ stderr' = GenericCreateError
    /\ net' = net /\ draft' = draft

\* The template as createIssue writes it on each platform.
WrittenTemplate == [os \in {"linux", "windows"} |-> Contents(os)]

\* The file holds what createIssue wrote to it.
Unedited == file.exists /\ file.data = WrittenTemplate[goos]

\* C13: a re-read draft that is the template as it was written, or whose
\* line 0 is exactly "from: ", or whose line 1 is exactly "title: ", is
\* refused with the bare "failed to create issue" message and no create
\* request follows; the workflow never holds an empty author or an empty
\* title once it has parsed the draft, and every create request issued
\* carries a non-empty title, author name and summary.
C13_NoEmptyFields ==
    /\ [][(/\ pc = "createIssue_read" /\ file.exists
           /\ \/ Unedited
              \/ DraftLine(1) = FromPrefix
              \/ LineCount(file.data) >= 2 /\ DraftLine(2) = TitlePrefix)
             => DraftRefused]_vars
    /\ [](/\ pc = "createIssue_post" => draft.from # <<>> /\ draft.title # <<>>
          /\ (pc = "exit" /\ Unedited) => CreateRequests = {}
          /\ \A i \in CreateRequests :
                /\ net[i].doc.title # <<>>
                /\ net[i].doc.author # <<>>
                /\ net[i].doc.summary # <<>>)

\* On windows the editor exited with status 0 and left the template as it
\* was written, with "\r\n" line ends; the draft was refused and the login
\* stayed the only request.
C13_Witness ==
    /\ pc = "exit" /\ exitCode = 1
    /\ goos = "windows"
    /\ Unedited
    /\ CallNames = <<"WriteFile", "run", "ReadFile">>
    /\ calls[2].err = NoErr
    /\ stderr = GenericCreateError
    /\ Len(net) = 1

====
